---- MODULE Spec2Model ----
(***************************************************************************)
(* State-machine model of the OfficeMap component                          *)
(* (src/components/OfficeMap.tsx) and of the two AI collaborators it calls *)
(* (src/services/geminiService.ts).                                        *)
(*                                                                         *)
(* Number representation (the source uses JavaScript doubles):             *)
(*   zoom            integer multiples of 1/2000    (0.4 = 800, 2.5 = 5000)*)
(*   rotateX/rotateZ tenths of a degree             (85 deg = 850)         *)
(*   panX/panY, pointer coordinates, distances      CSS pixels             *)
(* so that every sensitivity factor of the source (0.0015, 0.005, 0.1,     *)
(* 0.3, 0.5) is an exact integer factor.                                   *)
(*                                                                         *)
(* A nullable value (T | null) is a sequence of length at most one:        *)
(* None is null, Some(v) is the value v.                                   *)
(***************************************************************************)
EXTENDS Integers, Sequences, FiniteSets, TLC

None == << >>
Some(v) == << v >>
IsNone(o) == o = << >>
Val(o) == o[1]

Max(a, b) == IF a >= b THEN a ELSE b
Min(a, b) == IF a <= b THEN a ELSE b
Abs(a) == IF a >= 0 THEN a ELSE -a

----------------------------------------------------------------------------
(* Program constants *)

ZOOM_MIN == 800
ZOOM_MAX == 5000
ZOOM_BUTTON_STEP == 200
WHEEL_ZOOM_SPEED == 3
PINCH_ZOOM_SPEED == 10
ROTATE_X_MAX == 850
ROTATE_SPEED == 3
GLOBE_ROTATE_SPEED == 5
LOD_LOW_BELOW == 1300
LOD_HIGH_ABOVE == 2500

MapModes == {"standard", "heatmap", "traffic", "networking", "globe"}

DefaultView == [zoom |-> 1600, rotateX |-> 550, rotateZ |-> 450, panX |-> 0, panY |-> 0]
GlobeView == [zoom |-> 1800, rotateX |-> 0, rotateZ |-> 0, panX |-> 0, panY |-> 0]

----------------------------------------------------------------------------
(* Bounds of the model *)

\* |panX|, |panY| stay within MaxPan pixels
MaxPan == 200
\* |rotateZ| (and |rotateX| in globe mode) stay within MaxRot tenths of a degree
MaxRot == 1000
\* at most MaxTouches fingers on the surface
MaxTouches == 2

\* pointer positions of mouse and single-finger events
Points == {[x |-> 0, y |-> 0], [x |-> 100, y |-> 200]}
\* event.deltaY of wheel events: single notches, and flings that saturate the clamp
WheelNotches == {-100, 100}
WheelFlings == {-3000, 3000}
\* distance between the two fingers of a pinch
PinchDists == {100, 200}
PinchSpreads == {100, 1000}

----------------------------------------------------------------------------
VARIABLES
    viewState,          \* useState: {zoom, rotateX, rotateZ, panX, panY}
    mapMode,            \* useState<MapMode>
    interactionMode,    \* useState<'pan' | 'rotate'>
    modeEffectPending,  \* the [mapMode] effect is scheduled and has not run yet
    isDragging,         \* useState(false)
    lastMousePos,       \* useRef: None or Some(point)
    lastTouchPos,       \* useRef: None or Some(point)
    lastTouchDist,      \* useRef: None or Some(distance)
    touches,            \* environment: number of fingers on the surface
    recordedInDrag,     \* history: which recorded positions were written during the drag in progress
    ctrlGesture,        \* history: the latest pointer-down/touch-start hit a control while idle
    businesses,         \* props.businesses: sequence of Business records
    hoveredId,          \* useState<string | null>
    selectedBusinessId, \* useState<string | null>
    isSidebarOpen,      \* useState(false)
    searchQuery,        \* useState('')
    isSearchingAI,      \* useState(false)
    aiFilteredIds,      \* useState<string[] | null>: None or Some(set of ids)
    searchInFlight,     \* handleAISearch calls suspended at their await (request numbers)
    searchIssued,       \* number of AI searches issued so far
    lastSearchOutcome,  \* history: how the latest completed AI call ended
    latestIssuedResult, \* history: None, or Some(ids) the most recently issued AI search returned
    isAnalyzing,        \* useState(false)
    showInsights,       \* useState(false)
    insightsContent,    \* useState('')
    analyzeInFlight,    \* handleAnalyzeTrends calls suspended at their await
    analyzeIssued,      \* number of trend analyses issued so far
    memo                \* the values cached by the two useMemo([businesses, mapMode]) hooks

camVars == <<viewState, mapMode, interactionMode, modeEffectPending>>
gestureVars == <<isDragging, lastMousePos, lastTouchPos, lastTouchDist, touches, recordedInDrag>>
uiVars == <<hoveredId, selectedBusinessId, isSidebarOpen>>
searchVars == <<searchQuery, isSearchingAI, aiFilteredIds, searchInFlight, searchIssued,
                lastSearchOutcome, latestIssuedResult>>
analyzeVars == <<isAnalyzing, showInsights, insightsContent, analyzeInFlight, analyzeIssued>>
appVars == <<businesses, uiVars, searchVars, analyzeVars>>
vars == <<camVars, gestureVars, ctrlGesture, appVars, memo>>

----------------------------------------------------------------------------
(* Pure helpers of the camera controller *)

\* mutant: the effect without its globe branch
ResetView_NoGlobeBranch(mode) == DefaultView

\* the view state the [mapMode] effect installs
ResetView(mode) == IF mode = "globe" THEN GlobeView ELSE DefaultView
ResetInteraction(mode) == IF mode = "globe" THEN "rotate" ELSE "pan"

\* mutant: rotate-mode drags without the [0, 85] clamp
UpdateNavigation_NoClamp(vs, mode, inter, dx, dy) ==
    IF mode = "globe"
      THEN [vs EXCEPT !.rotateZ = vs.rotateZ + dx * GLOBE_ROTATE_SPEED,
                      !.rotateX = vs.rotateX - dy * GLOBE_ROTATE_SPEED]
    ELSE IF inter = "rotate"
      THEN [vs EXCEPT !.rotateZ = vs.rotateZ + dx * ROTATE_SPEED,
                      !.rotateX = vs.rotateX - dy * ROTATE_SPEED]
    ELSE [vs EXCEPT !.panX = vs.panX + dx, !.panY = vs.panY + dy]

\* mutant: the globe spin clamped like the rotate-mode tilt
UpdateNavigation_GlobeClamped(vs, mode, inter, dx, dy) ==
    IF mode = "globe" \/ inter = "rotate"
      THEN [vs EXCEPT !.rotateZ = vs.rotateZ + dx * (IF mode = "globe" THEN GLOBE_ROTATE_SPEED
                                                                       ELSE ROTATE_SPEED),
                      !.rotateX = Max(0, Min(ROTATE_X_MAX,
                                      vs.rotateX - dy * (IF mode = "globe" THEN GLOBE_ROTATE_SPEED
                                                                           ELSE ROTATE_SPEED)))]
    ELSE [vs EXCEPT !.panX = vs.panX + dx, !.panY = vs.panY + dy]

\* updateNavigation(dx, dy): the functional update applied to prev = vs
UpdateNavigation(vs, mode, inter, dx, dy) ==
    IF mode = "globe"
      THEN [vs EXCEPT !.rotateZ = vs.rotateZ + dx * GLOBE_ROTATE_SPEED,
                      !.rotateX = vs.rotateX - dy * GLOBE_ROTATE_SPEED]
    ELSE IF inter = "rotate"
      THEN [vs EXCEPT !.rotateZ = vs.rotateZ + dx * ROTATE_SPEED,
                      !.rotateX = Max(0, Min(ROTATE_X_MAX, vs.rotateX - dy * ROTATE_SPEED))]
    ELSE [vs EXCEPT !.panX = vs.panX + dx, !.panY = vs.panY + dy]

WheelZoom(vs, deltaY) ==
    [vs EXCEPT !.zoom = Max(ZOOM_MIN, Min(ZOOM_MAX, vs.zoom + (-deltaY) * WHEEL_ZOOM_SPEED))]

\* mutant: the pinch delta also turns the camera
PinchZoom_AlsoTurns(vs, delta) ==
    [vs EXCEPT !.zoom = Max(ZOOM_MIN, Min(ZOOM_MAX, vs.zoom + delta * PINCH_ZOOM_SPEED)),
               !.rotateZ = vs.rotateZ + delta]

PinchZoom(vs, delta) ==
    [vs EXCEPT !.zoom = Max(ZOOM_MIN, Min(ZOOM_MAX, vs.zoom + delta * PINCH_ZOOM_SPEED))]

\* mutant: the + button without Math.min
ZoomInButton_NoClamp(vs) == [vs EXCEPT !.zoom = vs.zoom + ZOOM_BUTTON_STEP]

ZoomInButton(vs) == [vs EXCEPT !.zoom = Min(ZOOM_MAX, vs.zoom + ZOOM_BUTTON_STEP)]
ZoomOutButton(vs) == [vs EXCEPT !.zoom = Max(ZOOM_MIN, vs.zoom - ZOOM_BUTTON_STEP)]

\* the model's cap on the unbounded camera fields
InBounds(vs) ==
    /\ Abs(vs.panX) <= MaxPan /\ Abs(vs.panY) <= MaxPan
    /\ Abs(vs.rotateZ) <= MaxRot /\ Abs(vs.rotateX) <= MaxRot

\* mutant: the two thresholds taken inclusively
CurrentLod_Inclusive(zoom, mode) ==
    IF zoom <= LOD_LOW_BELOW \/ mode = "globe" THEN "low"
    ELSE IF zoom >= LOD_HIGH_ABOVE THEN "high"
    ELSE "medium"

CurrentLod(zoom, mode) ==
    IF zoom < LOD_LOW_BELOW \/ mode = "globe" THEN "low"
    ELSE IF zoom > LOD_HIGH_ABOVE THEN "high"
    ELSE "medium"

----------------------------------------------------------------------------
(* Strings: sequences of one-character strings *)

\* String.prototype.toLowerCase on the characters the model uses
LowerChar(c) ==
    CASE c = "M" -> "m"
      [] c = "S" -> "s"
      [] c = "T" -> "t"
      [] OTHER -> c

ToLowerCase(str) == [i \in 1..Len(str) |-> LowerChar(str[i])]

\* String.prototype.includes: sub occurs in str as a contiguous substring
Includes(str, sub) ==
    \E k \in 0..(Len(str) - Len(sub)) :
        \A i \in 1..Len(sub) : str[k + i] = sub[i]

\* String.prototype.trim: strips leading and trailing blanks
RECURSIVE TrimLeft(_)
TrimLeft(str) ==
    IF str # << >> /\ Head(str) = " " THEN TrimLeft(Tail(str)) ELSE str

RECURSIVE TrimRight(_)
TrimRight(str) ==
    IF str # << >> /\ str[Len(str)] = " " THEN TrimRight(SubSeq(str, 1, Len(str) - 1)) ELSE str

Trim(str) == TrimRight(TrimLeft(str))

----------------------------------------------------------------------------
(* Spatial layout constants and geometry *)

CONTAINER_SIZE == 1200
GRID_COLS == 3
PADDING == 120
GAP == 120
CELL_SIZE == (CONTAINER_SIZE - (PADDING * 2) - (GAP * (GRID_COLS - 1))) \div GRID_COLS

\* mutant: the corner of the cell in place of its centre
GetCellCenter_NoHalfCell(gridPos) ==
    [x |-> PADDING + ((gridPos.x - 1) * CELL_SIZE) + ((gridPos.x - 1) * GAP),
     y |-> PADDING + ((gridPos.y - 1) * CELL_SIZE) + ((gridPos.y - 1) * GAP)]

GetCellCenter(gridPos) ==
    LET colIndex == gridPos.x - 1
        rowIndex == gridPos.y - 1
    IN  [x |-> PADDING + (colIndex * CELL_SIZE) + (colIndex * GAP) + (CELL_SIZE \div 2),
         y |-> PADDING + (rowIndex * CELL_SIZE) + (rowIndex * GAP) + (CELL_SIZE \div 2)]

\* top-left corner of the tile of a grid coordinate (left: xPos, top: yPos)
TileCorner(gridPos) ==
    LET colIndex == gridPos.x - 1
        rowIndex == gridPos.y - 1
    IN  [x |-> PADDING + (colIndex * CELL_SIZE) + (colIndex * GAP),
         y |-> PADDING + (rowIndex * CELL_SIZE) + (rowIndex * GAP)]

----------------------------------------------------------------------------
(* Sphere placement.  Angles are radians in units of 1/10000; cosines are  *)
(* in units of 1/10000.  Math.acos and Math.sqrt are computed in this      *)
(* fixed-point arithmetic: the cosine by its power series, the arc cosine  *)
(* by bisection of the cosine over [0, pi], the square root by its         *)
(* defining inequality.                                                    *)

GLOBE_RADIUS == 320
MATH_PI == 31416

\* number of terms of the cosine series, and of halvings of [0, pi]
CosTerms == 8
AcosSteps == 13

\* sum of the terms k, k+1, ... of 1 - p^2/2! + p^4/4! - ...; term is the k-th
RECURSIVE CosSeries(_, _, _)
CosSeries(p, k, term) ==
    IF k >= CosTerms THEN 0
    ELSE term + CosSeries(p, k + 1,
                   -((((term * p) \div 10000) \div ((2 * k + 1) * (2 * k + 2))) * p) \div 10000)

Cos(p) == CosSeries(p, 0, 10000)

RECURSIVE AcosBisect(_, _, _, _)
AcosBisect(c, lo, hi, n) ==
    IF n = 0 THEN lo
    ELSE LET mid == (lo + hi) \div 2
         IN  IF Cos(mid) > c THEN AcosBisect(c, mid, hi, n - 1)
             ELSE AcosBisect(c, lo, mid, n - 1)

\* Math.acos on [-1, 1]
Acos(c) == AcosBisect(c, 0, MATH_PI, AcosSteps)

\* Math.sqrt of v/10000, in units of 1/100
Sqrt(v) == CHOOSE r \in 0..1000 : r * r <= v /\ (r + 1) * (r + 1) > v

\* mutant: the cosine without its -1 offset
SpherePhi_NoOffset(index, total) == Acos((20000 * index) \div total)

\* const phi = Math.acos(-1 + (2 * index) / total)
SpherePhi(index, total) == Acos(-10000 + (20000 * index) \div total)

\* const theta = Math.sqrt(total * Math.PI) * phi
SphereTheta(phi, total) == (Sqrt(total * MATH_PI) * phi) \div 100

----------------------------------------------------------------------------
(* Business records.  An id k stands for the string id of the k-th spot.   *)
(* genomeProfile and activeVisitors are optional (None when undefined).    *)

\* number of businesses in a generated list
MaxBusinesses == 3

Genome(offered, needed) == [servicesOffered |-> offered, servicesNeeded |-> needed]

\* the attribute combinations a spot can carry
Templates == {
    [name |-> <<"M", "x">>, description |-> Some(<<"s">>), category |-> <<"t">>, isOccupied |-> TRUE,
     activeVisitors |-> Some(30),
     genomeProfile |-> Some(Genome(<< <<"x">> >>, << <<"M">> >>))],
    [name |-> <<"s">>, description |-> None, category |-> <<"t">>, isOccupied |-> TRUE,
     activeVisitors |-> Some(25),
     genomeProfile |-> Some(Genome(<< <<"m", "s">> >>, << >>))],
    [name |-> <<"T">>, description |-> None, category |-> <<"t">>, isOccupied |-> TRUE,
     activeVisitors |-> None,
     genomeProfile |-> None],
    [name |-> <<"f", "m">>, description |-> Some(<<"x">>), category |-> <<"f">>, isOccupied |-> TRUE,
     activeVisitors |-> Some(45),
     genomeProfile |-> Some(Genome(<< >>, << <<"m", "s">>, <<"f">> >>))],
    [name |-> <<"x">>, description |-> None, category |-> <<"t">>, isOccupied |-> FALSE,
     activeVisitors |-> Some(40),
     genomeProfile |-> Some(Genome(<< <<"M">> >>, << >>))] }

\* two ways of laying spots 1, 2, 3, ... on the grid: row by row, column by column
GridLayouts == {"rows", "columns"}
GridPositionOf(layout, k) ==
    LET a == ((k - 1) % GRID_COLS) + 1
        b == ((k - 1) \div GRID_COLS) + 1
    IN  IF layout = "rows" THEN [x |-> a, y |-> b] ELSE [x |-> b, y |-> a]

MakeBusiness(k, layout, t) ==
    [id |-> k, name |-> t.name, description |-> t.description, category |-> t.category, isOccupied |-> t.isOccupied,
     activeVisitors |-> t.activeVisitors, genomeProfile |-> t.genomeProfile,
     gridPosition |-> GridPositionOf(layout, k)]

\* every business list of at most MaxBusinesses spots
BusinessLists ==
    UNION { { [k \in 1..n |-> MakeBusiness(k, layout, ts[k])] :
                ts \in [1..n -> Templates], layout \in GridLayouts } : n \in 0..MaxBusinesses }

\* the list the camera and search specifications run on
DistrictBusinesses ==
    LET pick(nm) == CHOOSE t \in Templates : t.name = nm
    IN  << MakeBusiness(1, "rows", pick(<<"M", "x">>)),
           MakeBusiness(2, "rows", pick(<<"s">>)),
           MakeBusiness(3, "rows", pick(<<"f", "m">>)) >>

Ids(bs) == { bs[i].id : i \in 1..Len(bs) }

----------------------------------------------------------------------------
(* Relationship deriver: networkingConnections and trafficSegments *)

\* needs of a matched against offers of b; optional chaining makes a missing profile falsy
NeedMatchesOffer(need, offer) ==
    \/ Includes(ToLowerCase(offer), ToLowerCase(need))
    \/ Includes(ToLowerCase(need), ToLowerCase(offer))

NeedsServedBy(a, b) ==
    /\ ~IsNone(a.genomeProfile)
    /\ ~IsNone(b.genomeProfile)
    /\ \E i \in 1..Len(Val(a.genomeProfile).servicesNeeded) :
         \E j \in 1..Len(Val(b.genomeProfile).servicesOffered) :
            NeedMatchesOffer(Val(a.genomeProfile).servicesNeeded[i],
                             Val(b.genomeProfile).servicesOffered[j])

\* mutant: only the needs of the first business are matched
HasSynergy_OneWay(b1, b2) == NeedsServedBy(b1, b2)

HasSynergy(b1, b2) == NeedsServedBy(b1, b2) \/ NeedsServedBy(b2, b1)

\* mutant: the category test ahead of the synergy test
ConnectionType_IndustryFirst(b1, b2) ==
    IF b1.category = b2.category THEN "industry"
    ELSE IF HasSynergy(b1, b2) THEN "synergy"
    ELSE "none"

\* let type = null; if (hasSynergy) ... else if (b1.category === b2.category) ...
ConnectionType(b1, b2) ==
    IF HasSynergy(b1, b2) THEN "synergy"
    ELSE IF b1.category = b2.category THEN "industry"
    ELSE "none"

Connection(b1, b2) ==
    [id |-> <<b1.id, b2.id>>, participants |-> <<b1.id, b2.id>>,
     start |-> GetCellCenter(b1.gridPosition), end |-> GetCellCenter(b2.gridPosition),
     type |-> ConnectionType(b1, b2)]

\* the nested loops for (i ...) for (j = i + 1 ...), in push order
RECURSIVE ConnectionsFrom(_, _, _)
ConnectionsFrom(occupied, i, j) ==
    IF i > Len(occupied) THEN << >>
    ELSE IF j > Len(occupied) THEN ConnectionsFrom(occupied, i + 1, i + 2)
    ELSE (IF ConnectionType(occupied[i], occupied[j]) # "none"
            THEN << Connection(occupied[i], occupied[j]) >>
            ELSE << >>)
         \o ConnectionsFrom(occupied, i, j + 1)

IsOccupied(b) == b.isOccupied

NetworkingConnections(bs, mode) ==
    IF mode # "networking" THEN << >>
    ELSE ConnectionsFrom(SelectSeq(bs, IsOccupied), 1, 2)

\* b.activeVisitors || 0
VisitorsOf(b) == IF IsNone(b.activeVisitors) THEN 0 ELSE Val(b.activeVisitors)

\* nearby.reduce((acc, b) => acc + (b.activeVisitors || 0), 0)
RECURSIVE SumVisitors(_)
SumVisitors(nearby) ==
    IF nearby = << >> THEN 0 ELSE VisitorsOf(Head(nearby)) + SumVisitors(Tail(nearby))

\* mutant: the corridor filter without b.isOccupied
NearColumn_AnyOccupancy(bs, c) ==
    LET near(b) == b.gridPosition.x = c \/ b.gridPosition.x = c + 1
    IN  SelectSeq(bs, near)

NearColumn(bs, c) ==
    LET near(b) == b.isOccupied /\ (b.gridPosition.x = c \/ b.gridPosition.x = c + 1)
    IN  SelectSeq(bs, near)

NearRow(bs, r) ==
    LET near(b) == b.isOccupied /\ (b.gridPosition.y = r \/ b.gridPosition.y = r + 1)
    IN  SelectSeq(bs, near)

CorridorOffset(c) == PADDING + (c - 1) * (CELL_SIZE + GAP) + CELL_SIZE + GAP \div 2

VerticalSegment(bs, c) ==
    [id |-> <<"v", c>>, x1 |-> CorridorOffset(c), y1 |-> PADDING,
     x2 |-> CorridorOffset(c), y2 |-> CONTAINER_SIZE - PADDING,
     visitors |-> SumVisitors(NearColumn(bs, c)), orientation |-> "vertical"]

HorizontalSegment(bs, r) ==
    [id |-> <<"h", r>>, x1 |-> PADDING, y1 |-> CorridorOffset(r),
     x2 |-> CONTAINER_SIZE - PADDING, y2 |-> CorridorOffset(r),
     visitors |-> SumVisitors(NearRow(bs, r)), orientation |-> "horizontal"]

TrafficSegments(bs, mode) ==
    IF mode # "traffic" THEN << >>
    ELSE [c \in 1..(GRID_COLS - 1) |-> VerticalSegment(bs, c)]
         \o [r \in 1..(GRID_COLS - 1) |-> HorizontalSegment(bs, r)]

----------------------------------------------------------------------------
(* Scene composer: the displayed list and the active-highlight query *)

\* mutant: the text filter applied on top of the AI filter
ProcessedBusinesses_TextOnTop(bs, aiIds, query) ==
    LET q == ToLowerCase(query)
        keep(b) == /\ IsNone(aiIds) \/ b.id \in Val(aiIds)
                   /\ \/ Trim(query) = << >>
                      \/ Includes(ToLowerCase(b.name), q)
                      \/ (~IsNone(b.description) /\ Includes(ToLowerCase(Val(b.description)), q))
                      \/ Includes(ToLowerCase(b.category), q)
    IN  SelectSeq(bs, keep)

ProcessedBusinesses(bs, aiIds, query) ==
    IF ~IsNone(aiIds)
      THEN LET keep(b) == b.id \in Val(aiIds) IN SelectSeq(bs, keep)
    ELSE IF Trim(query) # << >>
      THEN LET q == ToLowerCase(query)
               keep(b) == \/ Includes(ToLowerCase(b.name), q)
                          \/ (~IsNone(b.description) /\ Includes(ToLowerCase(Val(b.description)), q))
                          \/ Includes(ToLowerCase(b.category), q)
           IN  SelectSeq(bs, keep)
    ELSE bs

\* mutant: the sphere sized by the full list instead of the filtered one
SphereTotal_FullList(processed) == Len(businesses)

\* const total = processedBusinesses.length
SphereTotal(processed) == Len(processed)

\* the style of the tile at position index of processedBusinesses.map
TileStyle(business, index, processed, mode) ==
    IF mode = "globe"
      THEN LET total == SphereTotal(processed)
               phi == SpherePhi(index, total)
               theta == SphereTheta(phi, total)
           IN  [kind |-> "sphere", index |-> index, total |-> total,
                phi |-> phi, theta |-> theta,
                radius |-> GLOBE_RADIUS, width |-> CELL_SIZE, height |-> CELL_SIZE]
      ELSE [kind |-> "grid", left |-> TileCorner(business.gridPosition).x,
            top |-> TileCorner(business.gridPosition).y,
            width |-> CELL_SIZE, height |-> CELL_SIZE]

\* processedBusinesses.map((business, index) => ...): one tile per displayed business
Tiles(processed, mode) ==
    [k \in 1..Len(processed) |->
        [id |-> processed[k].id, style |-> TileStyle(processed[k], k - 1, processed, mode)]]

\* mutant: the selected business takes the focus from the hovered one
ActiveId_SelectedFirst(hovered, selected) == IF ~IsNone(selected) THEN selected ELSE hovered

\* hoveredId || selectedBusinessId
ActiveId(hovered, selected) == IF ~IsNone(hovered) THEN hovered ELSE selected

\* networkingConnections.find(c => c.participants.includes(id) && c.participants.includes(activeId))
FindConnection(connections, id, activeId) ==
    LET hit(c) == (c.participants[1] = id \/ c.participants[2] = id)
                  /\ (c.participants[1] = activeId \/ c.participants[2] = activeId)
        hits == SelectSeq(connections, hit)
    IN  IF hits = << >> THEN None ELSE Some(Head(hits))

\* mutant: without the early return for a missing focus
GetNetworkStatus_NoFocusCase(id, mode, hovered, selected, connections) ==
    LET active == ActiveId(hovered, selected)
    IN  IF mode # "networking" THEN [isRelated |-> FALSE, type |-> "none"]
        ELSE IF ~IsNone(active) /\ id = Val(active) THEN [isRelated |-> TRUE, type |-> "none"]
        ELSE LET conn == IF IsNone(active) THEN None
                         ELSE FindConnection(connections, id, Val(active))
             IN  IF ~IsNone(conn) THEN [isRelated |-> TRUE, type |-> Val(conn).type]
                 ELSE [isRelated |-> FALSE, type |-> "none"]

GetNetworkStatus(id, mode, hovered, selected, connections) ==
    LET active == ActiveId(hovered, selected)
    IN  IF mode # "networking" THEN [isRelated |-> FALSE, type |-> "none"]
        ELSE IF IsNone(active) THEN [isRelated |-> TRUE, type |-> "none"]
        ELSE IF id = Val(active) THEN [isRelated |-> TRUE, type |-> "none"]
        ELSE LET conn == FindConnection(connections, id, Val(active))
             IN  IF ~IsNone(conn) THEN [isRelated |-> TRUE, type |-> Val(conn).type]
                 ELSE [isRelated |-> FALSE, type |-> "none"]

----------------------------------------------------------------------------
(* Networking overlay *)

\* NetworkingLayer: one <g> with a <line> per connection it is handed; a
\* connection that does not touch the active business is drawn at opacity 0.1
\* and without the moving particle.  Opacity in tenths.
NetworkingLayer(connections, activeId) ==
    [i \in 1..Len(connections) |->
        LET conn == connections[i]
            isRelevant == \/ IsNone(activeId)
                          \/ \E k \in 1..Len(conn.participants) :
                                conn.participants[k] = Val(activeId)
        IN  [participants |-> conn.participants, type |-> conn.type,
             opacity |-> IF isRelevant THEN 9 ELSE 1, particle |-> isRelevant]]

\* {mapMode === 'networking' && <NetworkingLayer connections={networkingConnections}
\*                                               activeId={hoveredId || selectedBusinessId} />}
DrawnConnections(mode, connections, hovered, selected) ==
    IF mode = "networking"
      THEN NetworkingLayer(connections, ActiveId(hovered, selected))
      ELSE << >>

----------------------------------------------------------------------------
(* BuildingBlock: what a tile renders at each detail tier *)

\* heatmapIntensity > 0.7 with heatmapIntensity = min(visitors / 50, 1), taken
\* only in heatmap mode over an occupied business: visitors * 10 > 350
HeatmapHot(business, mode) ==
    mode = "heatmap" /\ business.isOccupied /\ VisitorsOf(business) * 10 > 350

ShowPulse(business, lod, mode, isNetworkRelated) ==
    /\ lod # "low"
    /\ \/ HeatmapHot(business, mode)
       \/ mode = "traffic" /\ VisitorsOf(business) > 40
       \/ mode = "networking" /\ isNetworkRelated

\* mutant: the logo and the name shown at the low tier instead of the high one
ShowContent_AtLowTier(lod, isHovered, mode, isNetworkRelated) ==
    lod = "low" \/ isHovered \/ (mode = "networking" /\ isNetworkRelated)

ShowContent(lod, isHovered, mode, isNetworkRelated) ==
    lod = "high" \/ isHovered \/ (mode = "networking" /\ isNetworkRelated)

ShowBanner(business, lod, mode, isHovered, isSelected, isNetworkRelated) ==
    /\ ShowContent(lod, isHovered, mode, isNetworkRelated) \/ isSelected
    /\ business.isOccupied
    /\ mode # "globe"

\* the elements in the JSX BuildingBlock returns
TileContent(business, lod, mode, isHovered, isSelected, isNetworkRelated) ==
    LET showContent == ShowContent(lod, isHovered, mode, isNetworkRelated)
        when(cond, element) == IF cond THEN {element} ELSE {}
    IN  when(ShowPulse(business, lod, mode, isNetworkRelated), "pulse")
        \cup when(lod # "low" /\ mode # "globe", "ground shadow")
        \cup (IF business.isOccupied
                THEN when(lod # "low", "status dot")
                     \cup when(showContent, "logo")
                     \cup when(showContent /\ (lod = "high" \/ isHovered \/ isNetworkRelated),
                               "name label")
                     \cup when(lod = "high", "window texture")
                ELSE when(isHovered, "available pill")
                     \cup when(lod # "low" /\ ~isHovered, "plus mark"))
        \cup when(ShowBanner(business, lod, mode, isHovered, isSelected, isNetworkRelated),
                  "status banner")

----------------------------------------------------------------------------
(* Memoised derivations: useMemo(() => ..., [businesses, mapMode]) *)

\* the factories of the two hooks
Derive(bs, mode) ==
    [networkingConnections |-> NetworkingConnections(bs, mode),
     trafficSegments |-> TrafficSegments(bs, mode),
     recomputed |-> TRUE]

\* mutant: a dependency array that leaves out mapMode
DepsChanged_ListOnly(prevBs, prevMode, bs, mode) == prevBs # bs

\* React compares each entry of [businesses, mapMode] with the previous render's
DepsChanged(prevBs, prevMode, bs, mode) == prevBs # bs \/ prevMode # mode

\* one render's pass over the two useMemo hooks: the factories run only when a
\* dependency changed; `recomputed` records whether they ran in this render
UseMemo(cache, prevBs, prevMode, bs, mode) ==
    IF DepsChanged(prevBs, prevMode, bs, mode)
      THEN Derive(bs, mode)
      ELSE [cache EXCEPT !.recomputed = FALSE]

\* the render that follows every state update; the previous render saw the
\* unprimed list and mode
Render == memo' = UseMemo(memo, businesses, mapMode, businesses', mapMode')

----------------------------------------------------------------------------
(* History of the gesture refs *)

NothingRecorded == [mouse |-> FALSE, touch |-> FALSE]

\* a handler that leaves isDragging true: positions it writes belong to the drag
\* in progress; positions written before the drag began do not
RecordInDrag(rec, wasDragging, mouse, touch) ==
    [mouse |-> mouse \/ (wasDragging /\ rec.mouse),
     touch |-> touch \/ (wasDragging /\ rec.touch)]

----------------------------------------------------------------------------
InitCamera ==
    /\ viewState = DefaultView
    /\ mapMode = "standard"
    /\ interactionMode = "pan"
    /\ modeEffectPending = FALSE
    /\ isDragging = FALSE
    /\ lastMousePos = None
    /\ lastTouchPos = None
    /\ lastTouchDist = None
    /\ touches = 0
    /\ ctrlGesture = FALSE
    /\ recordedInDrag = NothingRecorded

----------------------------------------------------------------------------
(* Mode buttons and the [mapMode] effect *)

\* onClick={() => setMapMode(mode)}; React schedules the effect only when the value changes
SetMapMode(m) ==
    /\ ~modeEffectPending
    /\ mapMode' = m
    /\ modeEffectPending' = (m # mapMode)
    /\ UNCHANGED <<viewState, interactionMode, gestureVars, ctrlGesture, appVars>>
    /\ Render

\* useEffect(() => {...}, [mapMode])
ModeEffect ==
    /\ modeEffectPending
    /\ viewState' = ResetView(mapMode)
    /\ interactionMode' = ResetInteraction(mapMode)
    /\ modeEffectPending' = FALSE
    /\ UNCHANGED <<mapMode, gestureVars, ctrlGesture, appVars>>
    /\ Render

\* the pan/rotate toggle, rendered only when mapMode !== 'globe'
ToggleInteraction ==
    /\ ~modeEffectPending
    /\ mapMode # "globe"
    /\ interactionMode' = (IF interactionMode = "pan" THEN "rotate" ELSE "pan")
    /\ UNCHANGED <<viewState, mapMode, modeEffectPending, gestureVars, ctrlGesture, appVars>>
    /\ Render

ZoomIn ==
    /\ ~modeEffectPending
    /\ viewState' = ZoomInButton(viewState)
    /\ UNCHANGED <<mapMode, interactionMode, modeEffectPending, gestureVars, ctrlGesture, appVars>>
    /\ Render

ZoomOut ==
    /\ ~modeEffectPending
    /\ viewState' = ZoomOutButton(viewState)
    /\ UNCHANGED <<mapMode, interactionMode, modeEffectPending, gestureVars, ctrlGesture, appVars>>
    /\ Render

----------------------------------------------------------------------------
(* Mouse handlers *)

\* mutant: handleMouseDown without the closest('button' | 'input' | 'select') test
MouseDown_NoControlTest(p, onControl) ==
    isDragging' = TRUE /\ lastMousePos' = Some(p)

\* mutant: a pointer-down that is ignored while an AI search is pending
MouseDown_IgnoredWhileSearching(p, onControl) ==
    IF onControl \/ isSearchingAI
      THEN UNCHANGED <<isDragging, lastMousePos>>
      ELSE isDragging' = TRUE /\ lastMousePos' = Some(p)

\* handleMouseDown; onControl: e.target.closest('button' | 'input' | 'select') is non-null
MouseDown(p, onControl) ==
    IF onControl
      THEN UNCHANGED <<isDragging, lastMousePos>>
      ELSE isDragging' = TRUE /\ lastMousePos' = Some(p)

HandleMouseDown(p, onControl) ==
    /\ ~modeEffectPending
    /\ MouseDown(p, onControl)
    /\ ctrlGesture' = (IF onControl THEN (ctrlGesture \/ ~isDragging) ELSE FALSE)
    /\ recordedInDrag' = (IF onControl THEN recordedInDrag
                          ELSE RecordInDrag(recordedInDrag, isDragging, TRUE, FALSE))
    /\ UNCHANGED <<camVars, lastTouchPos, lastTouchDist, touches, appVars>>
    /\ Render

HandleMouseMove(p) ==
    /\ ~modeEffectPending
    /\ IF ~isDragging \/ IsNone(lastMousePos)
         THEN UNCHANGED <<viewState, lastMousePos, recordedInDrag>>
         ELSE /\ viewState' = UpdateNavigation(viewState, mapMode, interactionMode,
                                               p.x - Val(lastMousePos).x, p.y - Val(lastMousePos).y)
              /\ InBounds(viewState')
              /\ lastMousePos' = Some(p)
              /\ recordedInDrag' = RecordInDrag(recordedInDrag, TRUE, TRUE, FALSE)
    /\ UNCHANGED <<mapMode, interactionMode, modeEffectPending,
                   isDragging, lastTouchPos, lastTouchDist, touches, ctrlGesture, appVars>>
    /\ Render

MouseUp ==
    /\ ~modeEffectPending
    /\ isDragging' = FALSE
    /\ recordedInDrag' = NothingRecorded
    /\ UNCHANGED <<camVars, lastMousePos, lastTouchPos, lastTouchDist, touches, ctrlGesture, appVars>>
    /\ Render

\* onMouseUp={handleMouseUp}
HandleMouseUp == MouseUp
\* onMouseLeave={handleMouseUp}
HandleMouseLeave == MouseUp

\* handleWheel, bound on the map container: it never looks at e.target, so
\* onControl (the wheel turned over a button, input or select) changes nothing
HandleWheel(deltaY, onControl) ==
    /\ ~modeEffectPending
    /\ viewState' = WheelZoom(viewState, deltaY)
    /\ UNCHANGED <<mapMode, interactionMode, modeEffectPending, gestureVars, ctrlGesture, appVars>>
    /\ Render

----------------------------------------------------------------------------
(* Touch handlers; n = e.touches.length *)

TouchStart(n, p, dist, onControl) ==
    IF onControl
      THEN UNCHANGED <<isDragging, lastTouchPos, lastTouchDist>>
      ELSE /\ isDragging' = TRUE
           /\ IF n = 1 THEN lastTouchPos' = Some(p) /\ lastTouchDist' = None
              ELSE IF n = 2 THEN lastTouchDist' = Some(dist) /\ UNCHANGED lastTouchPos
              ELSE UNCHANGED <<lastTouchPos, lastTouchDist>>

HandleTouchStart(p, dist, onControl) ==
    /\ ~modeEffectPending
    /\ touches < MaxTouches
    /\ touches' = touches + 1
    /\ TouchStart(touches + 1, p, dist, onControl)
    /\ ctrlGesture' = (IF onControl THEN (ctrlGesture \/ ~isDragging) ELSE FALSE)
    /\ recordedInDrag' = (IF onControl THEN recordedInDrag
                          ELSE RecordInDrag(recordedInDrag, isDragging, FALSE, touches + 1 = 1))
    /\ UNCHANGED <<camVars, lastMousePos, appVars>>
    /\ Render

\* lastTouchDist.current is tested for truthiness: null and 0 are both falsy
Truthy(o) == ~IsNone(o) /\ Val(o) # 0

HandleTouchMove(p, dist) ==
    /\ ~modeEffectPending
    /\ touches >= 1
    /\ IF ~isDragging
         THEN UNCHANGED <<viewState, lastTouchPos, lastTouchDist, recordedInDrag>>
       ELSE IF touches = 1 /\ ~IsNone(lastTouchPos)
         THEN /\ viewState' = UpdateNavigation(viewState, mapMode, interactionMode,
                                               p.x - Val(lastTouchPos).x, p.y - Val(lastTouchPos).y)
              /\ InBounds(viewState')
              /\ lastTouchPos' = Some(p)
              /\ recordedInDrag' = RecordInDrag(recordedInDrag, TRUE, FALSE, TRUE)
              /\ UNCHANGED lastTouchDist
       ELSE IF touches = 2 /\ Truthy(lastTouchDist)
         THEN /\ viewState' = PinchZoom(viewState, dist - Val(lastTouchDist))
              /\ lastTouchDist' = Some(dist)
              /\ UNCHANGED <<lastTouchPos, recordedInDrag>>
       ELSE UNCHANGED <<viewState, lastTouchPos, lastTouchDist, recordedInDrag>>
    /\ UNCHANGED <<mapMode, interactionMode, modeEffectPending,
                   isDragging, lastMousePos, touches, ctrlGesture, appVars>>
    /\ Render

\* mutant: lifting one of two fingers keeps the drag going
HandleTouchEnd_KeepsDragging ==
    /\ ~modeEffectPending
    /\ touches >= 1
    /\ touches' = touches - 1
    /\ isDragging' = (isDragging /\ touches > 1)
    /\ lastTouchPos' = (IF touches > 1 THEN lastTouchPos ELSE None)
    /\ lastTouchDist' = None
    /\ recordedInDrag' = NothingRecorded
    /\ UNCHANGED <<camVars, lastMousePos, ctrlGesture, appVars>>
    /\ Render

HandleTouchEnd ==
    /\ ~modeEffectPending
    /\ touches >= 1
    /\ touches' = touches - 1
    /\ isDragging' = FALSE
    /\ lastTouchPos' = None
    /\ lastTouchDist' = None
    /\ recordedInDrag' = NothingRecorded
    /\ UNCHANGED <<camVars, lastMousePos, ctrlGesture, appVars>>
    /\ Render

----------------------------------------------------------------------------
(* Tiles, sidebar and search box *)

Displayed == ProcessedBusinesses(businesses, aiFilteredIds, searchQuery)

\* BuildingBlock onMouseEnter={() => onHover(business.id)} on a rendered tile
HoverTile(id) ==
    /\ ~modeEffectPending
    /\ id \in Ids(Displayed)
    /\ hoveredId' = Some(id)
    /\ UNCHANGED <<camVars, gestureVars, ctrlGesture, businesses, selectedBusinessId,
                   isSidebarOpen, searchVars, analyzeVars>>
    /\ Render

\* BuildingBlock onMouseLeave={() => onHover(null)}
UnhoverTile ==
    /\ ~modeEffectPending
    /\ hoveredId' = None
    /\ UNCHANGED <<camVars, gestureVars, ctrlGesture, businesses, selectedBusinessId,
                   isSidebarOpen, searchVars, analyzeVars>>
    /\ Render

\* onSelect={(b) => { setSelectedBusinessId(b.id); setIsSidebarOpen(true); }}
SelectTile(id) ==
    /\ ~modeEffectPending
    /\ id \in Ids(Displayed)
    /\ selectedBusinessId' = Some(id)
    /\ isSidebarOpen' = TRUE
    /\ UNCHANGED <<camVars, gestureVars, ctrlGesture, businesses, hoveredId,
                   searchVars, analyzeVars>>
    /\ Render

\* mutant: closing the sidebar drops the selection
CloseSidebar_DropsSelection ==
    /\ ~modeEffectPending
    /\ isSidebarOpen
    /\ ~IsNone(selectedBusinessId) /\ Val(selectedBusinessId) \in Ids(businesses)
    /\ isSidebarOpen' = FALSE
    /\ selectedBusinessId' = None
    /\ UNCHANGED <<camVars, gestureVars, ctrlGesture, businesses, hoveredId,
                   searchVars, analyzeVars>>
    /\ Render

\* the sidebar's close button, rendered when isSidebarOpen && selectedBusiness
CloseSidebar ==
    /\ ~modeEffectPending
    /\ isSidebarOpen
    /\ ~IsNone(selectedBusinessId) /\ Val(selectedBusinessId) \in Ids(businesses)
    /\ isSidebarOpen' = FALSE
    /\ UNCHANGED <<camVars, gestureVars, ctrlGesture, businesses, hoveredId,
                   selectedBusinessId, searchVars, analyzeVars>>
    /\ Render

\* <input onChange={(e) => setSearchQuery(e.target.value)} />
SetSearchQuery(q) ==
    /\ ~modeEffectPending
    /\ searchQuery' = q
    /\ UNCHANGED <<camVars, gestureVars, ctrlGesture, businesses, uiVars, isSearchingAI,
                   aiFilteredIds, searchInFlight, searchIssued, lastSearchOutcome,
                   latestIssuedResult, analyzeVars>>
    /\ Render

----------------------------------------------------------------------------
(* AI collaborators.  The response of the remote model is the input         *)
(* `outcome`: kind "ok" (a parsed JSON answer, ids possibly missing: {}),   *)
(* or kind "error" (generateContent rejects, or JSON.parse throws).         *)

\* at most MaxSearches AI searches and MaxAnalyses trend analyses are issued
MaxSearches == 2
MaxAnalyses == 2

AiIdSets == {{}, {1}, {2, 3}}
AiSearchOutcomes ==
    {[kind |-> "error", ids |-> {}]} \cup {[kind |-> "ok", ids |-> S] : S \in AiIdSets}
AiTrendOutcomes == {"text", "empty", "error"}

\* searchBusinessesWithAI: how its promise settles
SearchBusinessesWithAI(outcome) ==
    IF outcome.kind = "ok"
      THEN [rejected |-> FALSE, ids |-> outcome.ids]
      ELSE [rejected |-> FALSE, ids |-> {}]

\* analyzeMapTrends: how its promise settles
AnalyzeMapTrends(outcome) ==
    IF outcome = "text" THEN [rejected |-> FALSE, text |-> "insights"]
    ELSE IF outcome = "empty" THEN [rejected |-> FALSE, text |-> "No insights generated."]
    ELSE [rejected |-> FALSE, text |-> "Unable to generate insights at this time."]

\* handleAISearch up to its await
HandleAISearch ==
    /\ ~modeEffectPending
    /\ searchIssued < MaxSearches
    /\ IF Trim(searchQuery) = << >>
         THEN UNCHANGED <<isSearchingAI, searchInFlight, searchIssued, latestIssuedResult>>
         ELSE /\ isSearchingAI' = TRUE
              /\ searchInFlight' = searchInFlight \cup {searchIssued + 1}
              /\ searchIssued' = searchIssued + 1
              /\ latestIssuedResult' = None
    /\ UNCHANGED <<camVars, gestureVars, ctrlGesture, businesses, uiVars, searchQuery,
                   aiFilteredIds, lastSearchOutcome, analyzeVars>>
    /\ Render

\* try { setAiFilteredIds(result.ids) } catch (e) { console.error(e) }
FilterAfterSearch(settled, previous) ==
    IF settled.rejected THEN previous ELSE Some(settled.ids)

\* mutant: the flag reset missing from the finally block
SearchingAfterSearch_NoFinally(settled, previous) == previous

\* finally { setIsSearchingAI(false) }
SearchingAfterSearch(settled, previous) == FALSE

\* handleAISearch from its await on, for request r
ResumeAISearch(r, outcome) ==
    /\ ~modeEffectPending
    /\ r \in searchInFlight
    /\ aiFilteredIds' = FilterAfterSearch(SearchBusinessesWithAI(outcome), aiFilteredIds)
    /\ isSearchingAI' = SearchingAfterSearch(SearchBusinessesWithAI(outcome), isSearchingAI)
    /\ searchInFlight' = searchInFlight \ {r}
    /\ lastSearchOutcome' = outcome.kind
    /\ latestIssuedResult' = (IF r = searchIssued THEN Some(SearchBusinessesWithAI(outcome).ids)
                              ELSE latestIssuedResult)
    /\ UNCHANGED <<camVars, gestureVars, ctrlGesture, businesses, uiVars, searchQuery,
                   searchIssued, analyzeVars>>
    /\ Render

\* handleAnalyzeTrends up to its await
HandleAnalyzeTrends ==
    /\ ~modeEffectPending
    /\ analyzeIssued < MaxAnalyses
    /\ isAnalyzing' = TRUE
    /\ showInsights' = TRUE
    /\ analyzeInFlight' = analyzeInFlight + 1
    /\ analyzeIssued' = analyzeIssued + 1
    /\ UNCHANGED <<camVars, gestureVars, ctrlGesture, businesses, uiVars, searchVars,
                   insightsContent>>
    /\ Render

\* try { setInsightsContent(result) } catch (e) { setInsightsContent("Failed ...") }
InsightsAfterAnalysis(settled) ==
    IF settled.rejected THEN "Failed to generate insights." ELSE settled.text

\* finally { setIsAnalyzing(false) }
AnalyzingAfterAnalysis(settled, previous) == FALSE

\* handleAnalyzeTrends from its await on
ResumeAnalyzeTrends(outcome) ==
    /\ ~modeEffectPending
    /\ analyzeInFlight > 0
    /\ insightsContent' = InsightsAfterAnalysis(AnalyzeMapTrends(outcome))
    /\ isAnalyzing' = AnalyzingAfterAnalysis(AnalyzeMapTrends(outcome), isAnalyzing)
    /\ analyzeInFlight' = analyzeInFlight - 1
    /\ UNCHANGED <<camVars, gestureVars, ctrlGesture, businesses, uiVars, searchVars,
                   showInsights, analyzeIssued>>
    /\ Render

\* the insights panel's close button
CloseInsights ==
    /\ ~modeEffectPending
    /\ showInsights
    /\ showInsights' = FALSE
    /\ UNCHANGED <<camVars, gestureVars, ctrlGesture, businesses, uiVars, searchVars,
                   isAnalyzing, insightsContent, analyzeInFlight, analyzeIssued>>
    /\ Render

----------------------------------------------------------------------------
(* The businesses prop *)

\* the parent renders <OfficeMap businesses={...} /> with another list
SetBusinesses(bs) ==
    /\ ~modeEffectPending
    /\ bs # businesses
    /\ businesses' = bs
    /\ UNCHANGED <<camVars, gestureVars, ctrlGesture, uiVars, searchVars, analyzeVars>>
    /\ Render

----------------------------------------------------------------------------
(* Initial states *)

InitApp ==
    /\ hoveredId = None
    /\ selectedBusinessId = None
    /\ isSidebarOpen = FALSE
    /\ searchQuery = << >>
    /\ isSearchingAI = FALSE
    /\ aiFilteredIds = None
    /\ searchInFlight = {}
    /\ searchIssued = 0
    /\ lastSearchOutcome = "none"
    /\ latestIssuedResult = None
    /\ isAnalyzing = FALSE
    /\ showInsights = FALSE
    /\ insightsContent = ""
    /\ analyzeInFlight = 0
    /\ analyzeIssued = 0

\* the first render computes both memoised values
InitMemo == memo = Derive(businesses, mapMode)

\* the component mounted on the district's list
Init == InitCamera /\ InitApp /\ businesses = DistrictBusinesses /\ InitMemo

\* the component mounted on any list of the bounded family
InitAnyList == InitCamera /\ InitApp /\ businesses \in BusinessLists /\ InitMemo

----------------------------------------------------------------------------
(* Specifications *)

\* Mode switching from every camera, interaction and gesture state of the mouse
NextMode ==
    \/ \E m \in MapModes : SetMapMode(m)
    \/ ModeEffect
    \/ ToggleInteraction
    \/ \E p \in Points : HandleMouseDown(p, FALSE)
    \/ \E p \in Points : HandleMouseMove(p)
    \/ HandleMouseUp
    \/ \E d \in WheelFlings, c \in BOOLEAN : HandleWheel(d, c)

SpecMode == Init /\ [][NextMode]_vars

\* Camera and gesture machine; zoom moves in saturating strides only, and the
\* non-globe modes are represented by standard and networking
GestureModes == {"standard", "networking", "globe"}

NextGesture ==
    \/ \E m \in GestureModes : SetMapMode(m)
    \/ ModeEffect
    \/ ToggleInteraction
    \/ \E p \in Points, c \in BOOLEAN : HandleMouseDown(p, c)
    \/ \E p \in Points : HandleMouseMove(p)
    \/ HandleMouseUp
    \/ HandleMouseLeave
    \/ \E d \in WheelFlings, c \in BOOLEAN : HandleWheel(d, c)
    \/ \E p \in Points, d \in PinchSpreads, c \in BOOLEAN : HandleTouchStart(p, d, c)
    \/ \E p \in Points, d \in PinchSpreads : HandleTouchMove(p, d)
    \/ HandleTouchEnd

SpecGesture == Init /\ [][NextGesture]_vars

\* Every zoom source at fine granularity, with drags and mode switches
NextZoom ==
    \/ \E m \in MapModes : SetMapMode(m)
    \/ ModeEffect
    \/ ZoomIn
    \/ ZoomOut
    \/ \E p \in Points : HandleMouseDown(p, FALSE)
    \/ \E p \in Points : HandleMouseMove(p)
    \/ HandleMouseUp
    \/ \E d \in WheelNotches \cup WheelFlings, c \in BOOLEAN : HandleWheel(d, c)
    \/ \E p \in Points, d \in PinchDists : HandleTouchStart(p, d, FALSE)
    \/ \E p \in Points, d \in PinchDists : HandleTouchMove(p, d)
    \/ HandleTouchEnd

SpecZoom == Init /\ [][NextZoom]_vars

\* Search box and the two asynchronous AI requests
Queries == {<< >>, <<" ">>, <<"M">>, <<" ", "t">>}

NextSearch ==
    \/ \E q \in Queries : SetSearchQuery(q)
    \/ HandleAISearch
    \/ \E r \in 1..MaxSearches, o \in AiSearchOutcomes : ResumeAISearch(r, o)
    \/ HandleAnalyzeTrends
    \/ \E o \in AiTrendOutcomes : ResumeAnalyzeTrends(o)
    \/ CloseInsights

SpecSearch == Init /\ [][NextSearch]_vars

\* every call that was issued completes
SpecSearchFair ==
    /\ SpecSearch
    /\ WF_vars(\E r \in 1..MaxSearches, o \in AiSearchOutcomes : ResumeAISearch(r, o))
    /\ WF_vars(\E o \in AiTrendOutcomes : ResumeAnalyzeTrends(o))

\* The tiles of the scene under the text filter and the AI filter, over the
\* district's list cut after 0, 1, ... spots
SceneModes == {"standard", "globe"}

InitScene ==
    /\ InitCamera /\ InitApp
    /\ businesses \in {SubSeq(DistrictBusinesses, 1, n) : n \in 0..Len(DistrictBusinesses)}
    /\ InitMemo

NextScene ==
    \/ \E m \in SceneModes : SetMapMode(m)
    \/ ModeEffect
    \/ \E q \in Queries : SetSearchQuery(q)
    \/ HandleAISearch
    \/ \E r \in 1..MaxSearches, o \in AiSearchOutcomes : ResumeAISearch(r, o)

SpecScene == InitScene /\ [][NextScene]_vars

\* Derived graph, traffic and highlight over every list of the bounded family
NextDerive ==
    \/ \E m \in MapModes : SetMapMode(m)
    \/ ModeEffect
    \/ \E id \in 1..MaxBusinesses : HoverTile(id)
    \/ UnhoverTile
    \/ \E id \in 1..MaxBusinesses : SelectTile(id)
    \/ CloseSidebar

SpecDerive == InitAnyList /\ [][NextDerive]_vars

\* The derived graph and the tile layout under mode switches alone, over every
\* list of the bounded family
NextGraph ==
    \/ \E m \in MapModes : SetMapMode(m)
    \/ ModeEffect

SpecGraph == InitAnyList /\ [][NextGraph]_vars

\* The memoised derivations under list changes, mode switches, camera moves,
\* hovering the first tile and selecting the second; the parent hands over the
\* district's list spot by spot, starting from none
DistrictPrefixes == {SubSeq(DistrictBusinesses, 1, n) : n \in 0..Len(DistrictBusinesses)}
MemoModes == {"standard", "traffic", "networking"}

InitMemoSpec == InitCamera /\ InitApp /\ businesses = << >> /\ InitMemo

NextMemo ==
    \/ \E bs \in DistrictPrefixes : SetBusinesses(bs)
    \/ \E m \in MemoModes : SetMapMode(m)
    \/ ModeEffect
    \/ ToggleInteraction
    \/ \E d \in WheelFlings : HandleWheel(d, FALSE)
    \/ \E p \in Points : HandleMouseDown(p, FALSE)
    \/ \E p \in Points : HandleMouseMove(p)
    \/ HandleMouseUp
    \/ HoverTile(1)
    \/ UnhoverTile
    \/ SelectTile(2)

SpecMemo == InitMemoSpec /\ [][NextMemo]_vars

\* Networking overlay and highlight under the text filter, the AI filter,
\* hovering, selecting and the sidebar
FocusModes == {"standard", "networking"}

NextFocus ==
    \/ \E m \in FocusModes : SetMapMode(m)
    \/ ModeEffect
    \/ \E q \in Queries : SetSearchQuery(q)
    \/ HandleAISearch
    \/ \E r \in 1..MaxSearches, o \in AiSearchOutcomes : ResumeAISearch(r, o)
    \/ \E id \in 1..MaxBusinesses : HoverTile(id)
    \/ UnhoverTile
    \/ \E id \in 1..MaxBusinesses : SelectTile(id)
    \/ CloseSidebar

SpecFocus == Init /\ [][NextFocus]_vars

\* The highlight of the networking overlay's tiles over every list of the
\* bounded family, under hovering and selecting
NextHighlight ==
    \/ \E m \in FocusModes : SetMapMode(m)
    \/ ModeEffect
    \/ \E id \in 1..MaxBusinesses : HoverTile(id)
    \/ UnhoverTile
    \/ \E id \in 1..MaxBusinesses : SelectTile(id)

SpecHighlight == InitAnyList /\ [][NextHighlight]_vars

\* The camera under the mouse, the wheel and the mode buttons while AI searches
\* and trend analyses are issued and completed
AsyncModes == {"standard", "globe"}
AsyncSearchOutcomes == {o \in AiSearchOutcomes : o.ids = {1}}
AsyncTrendOutcomes == {"text"}

NextAsync ==
    \/ SetSearchQuery(<<"M">>)
    \/ HandleAISearch
    \/ \E r \in 1..MaxSearches, o \in AsyncSearchOutcomes : ResumeAISearch(r, o)
    \/ HandleAnalyzeTrends
    \/ \E o \in AsyncTrendOutcomes : ResumeAnalyzeTrends(o)
    \/ \E m \in AsyncModes : SetMapMode(m)
    \/ ModeEffect
    \/ \E p \in Points : HandleMouseDown(p, FALSE)
    \/ \E p \in Points : HandleMouseMove(p)
    \/ HandleMouseUp
    \/ \E d \in WheelFlings : HandleWheel(d, FALSE)

SpecAsync == Init /\ [][NextAsync]_vars

\* The tiles at the three detail tiers: every list of the bounded family, every
\* map mode, the zoom flung between its limits, the first tile hovered and
\* selected
NextTiles ==
    \/ \E m \in MapModes : SetMapMode(m)
    \/ ModeEffect
    \/ \E d \in WheelFlings : HandleWheel(d, FALSE)
    \/ HoverTile(1)
    \/ UnhoverTile
    \/ SelectTile(1)

SpecTiles == InitAnyList /\ [][NextTiles]_vars

----------------------------------------------------------------------------
(* Step classification shared by the properties below *)

\* a mouse or one-finger move that applies a drag delta, ending at point p
IsMouseDragTo(p) == isDragging /\ ~IsNone(lastMousePos) /\ HandleMouseMove(p)
IsTouchDragTo(p) ==
    /\ isDragging /\ touches = 1 /\ ~IsNone(lastTouchPos)
    /\ \E d \in PinchDists \cup PinchSpreads : HandleTouchMove(p, d)

\* any pointer-move / touch-move event
IsMoveStep ==
    \/ \E p \in Points : HandleMouseMove(p)
    \/ \E p \in Points, d \in PinchDists \cup PinchSpreads : HandleTouchMove(p, d)

\* a two-finger move that applies a pinch delta
IsPinchTo(d) ==
    /\ isDragging /\ touches = 2 /\ Truthy(lastTouchDist)
    /\ \E p \in Points : HandleTouchMove(p, d)

----------------------------------------------------------------------------
(* Properties *)

\* C1: a switch of the map mode to globe ends with camera {zoom 0.9, rotateX 0,
\* rotateZ 0, panX 0, panY 0} and interaction mode rotate, whatever the camera,
\* interaction mode and gesture state were; a switch to standard, heatmap,
\* networking or traffic from another mode ends with camera {zoom 0.8, rotateX 55,
\* rotateZ 45, panX 0, panY 0} and interaction mode pan.  Every change of mapMode
\* schedules the reset, and the reset is the next thing that happens.
C1_ModeSwitchReset ==
    [][ /\ (mapMode' # mapMode => modeEffectPending')
        /\ (modeEffectPending => mapMode' = mapMode /\ ~modeEffectPending'
                                 /\ gestureVars' = gestureVars)
        /\ (modeEffectPending /\ mapMode = "globe" =>
               /\ viewState' = [zoom |-> 1800, rotateX |-> 0, rotateZ |-> 0,
                                panX |-> 0, panY |-> 0]
               /\ interactionMode' = "rotate")
        /\ (modeEffectPending /\ mapMode # "globe" =>
               /\ viewState' = [zoom |-> 1600, rotateX |-> 550, rotateZ |-> 450,
                                panX |-> 0, panY |-> 0]
               /\ interactionMode' = "pan")
      ]_vars

\* C1 witness: globe was entered in the middle of a drag and the camera is reset
C1_Witness ==
    /\ mapMode = "globe" /\ ~modeEffectPending
    /\ isDragging /\ ~IsNone(lastMousePos)
    /\ viewState = [zoom |-> 1800, rotateX |-> 0, rotateZ |-> 0, panX |-> 0, panY |-> 0]
    /\ interactionMode = "rotate"

\* C2: zoom stays within [0.4, 2.5] through wheel, pinch, button, drag and mode
\* switch steps; at 2.5 a zoom-in delta of wheel, pinch or button leaves zoom
\* unchanged, and at 0.4 so does a zoom-out delta.
C2_ZoomClamp ==
    [][ /\ viewState.zoom \in 800..5000
        /\ viewState'.zoom \in 800..5000
        /\ (/\ viewState.zoom = 5000
            /\ \/ ZoomIn
               \/ \E d \in WheelNotches \cup WheelFlings : d < 0 /\ HandleWheel(d, FALSE)
               \/ \E d \in PinchDists : IsPinchTo(d) /\ d > Val(lastTouchDist)
            => viewState'.zoom = 5000)
        /\ (/\ viewState.zoom = 800
            /\ \/ ZoomOut
               \/ \E d \in WheelNotches \cup WheelFlings : d > 0 /\ HandleWheel(d, FALSE)
               \/ \E d \in PinchDists : IsPinchTo(d) /\ d < Val(lastTouchDist)
            => viewState'.zoom = 800)
      ]_vars

\* C2 witness: zoom saturated at 2.5 while two fingers are pinching
C2_Witness == viewState.zoom = 5000 /\ touches = 2 /\ Truthy(lastTouchDist)

\* C3: outside globe mode with interaction mode rotate, a drag by (dx, dy) from
\* rotateX in [0, 85] sets rotateX to clamp(rotateX - dy*0.3, 0, 85) and rotateZ to
\* rotateZ + dx*0.3, so rotateX never leaves [0, 85].
C3_RotationClamp ==
    [][ /\ \A p \in Points :
            LET last == IF IsMouseDragTo(p) THEN Val(lastMousePos) ELSE Val(lastTouchPos)
                dx == p.x - last.x
                dy == p.y - last.y
                target == viewState.rotateX - dy * 3
            IN  (/\ mapMode # "globe" /\ interactionMode = "rotate"
                 /\ viewState.rotateX \in 0..850
                 /\ (IsMouseDragTo(p) \/ IsTouchDragTo(p)))
                => /\ viewState'.rotateX =
                        (IF target < 0 THEN 0 ELSE IF target > 850 THEN 850 ELSE target)
                   /\ viewState'.rotateZ = viewState.rotateZ + dx * 3
                   /\ viewState'.rotateX \in 0..850
        /\ (mapMode' # "globe" /\ ~modeEffectPending' => viewState'.rotateX \in 0..850)
      ]_vars

\* C3 witness: a rotate-mode drag has run rotateX into its upper clamp
C3_Witness ==
    /\ mapMode # "globe" /\ interactionMode = "rotate" /\ isDragging
    /\ viewState.rotateX = 850 /\ viewState.rotateZ # 450

\* C4: when the AI search fails, the AI filter stays unset (null) and the displayed
\* businesses are the ones displayed before.
C4_FailedSearchKeepsList ==
    [][ (/\ searchInFlight' # searchInFlight
         /\ searchInFlight' \subseteq searchInFlight
         /\ lastSearchOutcome' = "error"
         /\ IsNone(aiFilteredIds))
        => /\ IsNone(aiFilteredIds')
           /\ Displayed' = Displayed
      ]_vars

\* C5: every search and every trend analysis that was started leads to its
\* in-flight flag being false, whether the AI call resolved or threw, given that
\* the call completes; the step that completes a call leaves the flag false.
C5_FlagsCleared ==
    /\ \A r \in 1..MaxSearches : (r \in searchInFlight) ~> ~isSearchingAI
    /\ (analyzeInFlight > 0) ~> ~isAnalyzing
    /\ [][ /\ (searchInFlight' # searchInFlight /\ searchInFlight' \subseteq searchInFlight
                  => ~isSearchingAI')
           /\ (analyzeInFlight' < analyzeInFlight => ~isAnalyzing')
         ]_vars

\* C5 witness: a search and an analysis both ended in an AI error, flags are down
C5_Witness ==
    /\ lastSearchOutcome = "error" /\ searchInFlight = {} /\ ~isSearchingAI
    /\ insightsContent = "Unable to generate insights at this time."
    /\ analyzeInFlight = 0 /\ ~isAnalyzing

PairOf(conn) == {conn.participants[1], conn.participants[2]}
BusinessById(bs, id) == CHOOSE b \in {bs[i] : i \in 1..Len(bs)} : b.id = id

\* C6: in networking mode the edge list holds at most one edge per unordered pair;
\* an edge between two businesses that satisfy the synergy condition has type
\* synergy even when their categories are equal, and an industry edge joins only
\* businesses without synergy.
C6_SynergyPrecedence ==
    LET conns == NetworkingConnections(businesses, mapMode)
    IN  mapMode = "networking" =>
          /\ \A i, j \in 1..Len(conns) : i # j => PairOf(conns[i]) # PairOf(conns[j])
          /\ \A i \in 1..Len(conns) : Cardinality(PairOf(conns[i])) = 2
          /\ \A i \in 1..Len(conns) :
                LET b1 == BusinessById(businesses, conns[i].participants[1])
                    b2 == BusinessById(businesses, conns[i].participants[2])
                IN  /\ conns[i].type \in {"synergy", "industry"}
                    /\ HasSynergy(b1, b2) <=> conns[i].type = "synergy"
          /\ \A a, b \in 1..Len(businesses) :
                (/\ a < b /\ businesses[a].isOccupied /\ businesses[b].isOccupied
                 /\ HasSynergy(businesses[a], businesses[b]))
                => \E i \in 1..Len(conns) :
                      /\ PairOf(conns[i]) = {businesses[a].id, businesses[b].id}
                      /\ conns[i].type = "synergy"

\* C6 witness: a synergy edge between two businesses of the same category
C6_Witness ==
    /\ mapMode = "networking"
    /\ \E i \in 1..Len(NetworkingConnections(businesses, mapMode)) :
          LET c == NetworkingConnections(businesses, mapMode)[i]
          IN  /\ c.type = "synergy"
              /\ BusinessById(businesses, c.participants[1]).category
                   = BusinessById(businesses, c.participants[2]).category

\* sum of activeVisitors (0 when undefined) over the businesses at the indices S
RECURSIVE VisitorSum(_, _)
VisitorSum(bs, S) ==
    IF S = {} THEN 0
    ELSE LET i == CHOOSE k \in S : TRUE
         IN  (IF IsNone(bs[i].activeVisitors) THEN 0 ELSE bs[i].activeVisitors[1])
             + VisitorSum(bs, S \ {i})

\* C7: in traffic mode there are exactly GRID_COLS-1 vertical and GRID_COLS-1
\* horizontal segments, and corridor c of an axis carries the sum of activeVisitors
\* of the occupied businesses whose coordinate on that axis is c or c+1.
C7_TrafficAggregation ==
    LET segs == TrafficSegments(businesses, mapMode)
        vertical == {i \in 1..Len(segs) : segs[i].orientation = "vertical"}
        horizontal == {i \in 1..Len(segs) : segs[i].orientation = "horizontal"}
        nearX(c) == {k \in 1..Len(businesses) :
                        /\ businesses[k].isOccupied
                        /\ businesses[k].gridPosition.x \in {c, c + 1}}
        nearY(r) == {k \in 1..Len(businesses) :
                        /\ businesses[k].isOccupied
                        /\ businesses[k].gridPosition.y \in {r, r + 1}}
    IN  mapMode = "traffic" =>
          /\ Cardinality(vertical) = GRID_COLS - 1
          /\ Cardinality(horizontal) = GRID_COLS - 1
          /\ Len(segs) = Cardinality(vertical) + Cardinality(horizontal)
          /\ \A c \in 1..(GRID_COLS - 1) :
                /\ \E i \in vertical : segs[i].id = <<"v", c>>
                /\ \A i \in vertical :
                      segs[i].id = <<"v", c>> => segs[i].visitors = VisitorSum(businesses, nearX(c))
                /\ \E i \in horizontal : segs[i].id = <<"h", c>>
                /\ \A i \in horizontal :
                      segs[i].id = <<"h", c>> => segs[i].visitors = VisitorSum(businesses, nearY(c))

\* C7 witness: 30 and 25 visitors next to one corridor give 55, with an unoccupied
\* spot of 40 visitors next to the same corridor
C7_Witness ==
    /\ mapMode = "traffic"
    /\ \E i \in 1..Len(TrafficSegments(businesses, mapMode)) :
          LET seg == TrafficSegments(businesses, mapMode)[i]
          IN  /\ seg.id = <<"v", 1>>
              /\ seg.visitors = 55
              /\ \E k \in 1..Len(businesses) :
                    /\ ~businesses[k].isOccupied
                    /\ businesses[k].activeVisitors = <<40>>
                    /\ businesses[k].gridPosition.x \in {1, 2}

LodRank(lod) == CASE lod = "low" -> 0 [] lod = "medium" -> 1 [] lod = "high" -> 2

\* C8: the level of detail is low when zoom < 0.65 or the mode is globe, high when
\* zoom > 1.25 outside globe mode, medium otherwise (0.65 and 1.25 give medium);
\* for a fixed mode the tier never decreases when zoom grows.
C8_LevelOfDetail ==
    LET lod == CurrentLod(viewState.zoom, mapMode)
        zoom == viewState.zoom
    IN  /\ lod \in {"low", "medium", "high"}
        /\ (zoom < 1300 \/ mapMode = "globe") <=> lod = "low"
        /\ (zoom > 2500 /\ mapMode # "globe") <=> lod = "high"
        /\ (mapMode # "globe" /\ zoom \in {1300, 2500} => lod = "medium")
        /\ \A z \in {800, zoom - 100, zoom - 1} :
              z >= 800 => LodRank(CurrentLod(z, mapMode)) <= LodRank(lod)
        /\ \A z \in {zoom + 1, zoom + 100, 5000} :
              z <= 5000 => LodRank(CurrentLod(z, mapMode)) >= LodRank(lod)

\* C8 witness: zoom is exactly 0.65 outside globe mode, and the tier is medium
C8_Witness ==
    /\ viewState.zoom = 1300 /\ mapMode # "globe"
    /\ CurrentLod(viewState.zoom, mapMode) = "medium"

\* C9: in networking mode with nothing hovered and nothing selected, the
\* active-highlight query answers related = true for every business.
C9_NoFocusAllRelated ==
    (mapMode = "networking" /\ IsNone(hoveredId) /\ IsNone(selectedBusinessId))
    => \A i \in 1..Len(businesses) :
          GetNetworkStatus(businesses[i].id, mapMode, hoveredId, selectedBusinessId,
                           NetworkingConnections(businesses, mapMode)).isRelated

\* C9 witness: networking mode without focus, over a list that has businesses with
\* no edge at all
C9_Witness ==
    /\ mapMode = "networking" /\ ~modeEffectPending
    /\ IsNone(hoveredId) /\ IsNone(selectedBusinessId)
    /\ Len(businesses) >= 2
    /\ NetworkingConnections(businesses, mapMode) = << >>

\* C10: a pointer-down or touch-start on a button, input or select while idle
\* starts no drag: the gesture state stays idle, no pointer position or finger
\* distance is recorded, and until a pointer-down or touch-start lands outside
\* the controls no move event changes the camera.
C10_ControlDownStartsNoDrag ==
    [][ /\ ctrlGesture' =>
              /\ ~isDragging'
              /\ lastMousePos' = lastMousePos
              /\ lastTouchPos' \in {lastTouchPos, None}
              /\ lastTouchDist' \in {lastTouchDist, None}
        /\ (~ctrlGesture /\ ctrlGesture') => viewState' = viewState
        /\ (ctrlGesture /\ IsMoveStep) => viewState' = viewState
      ]_vars

\* C10 witness: a finger rests on a control, the machine is idle, and the pointer
\* position of an earlier mouse drag is still the recorded one
C10_Witness ==
    /\ ctrlGesture /\ ~isDragging /\ touches = 1
    /\ ~IsNone(lastMousePos)
    /\ viewState # DefaultView

\* C11: a gesture that starts over a button, input or select inside the map
\* container leaves the camera (zoom, rotateX, rotateZ, panX, panY) unchanged:
\* the pointer-down or touch-start itself, the move events that follow it, and a
\* wheel event whose target is the control.
C11_ControlGestureKeepsCamera ==
    [][ /\ (\E p \in Points : HandleMouseDown(p, TRUE)) => viewState' = viewState
        /\ (\E p \in Points, d \in PinchDists \cup PinchSpreads : HandleTouchStart(p, d, TRUE))
              => viewState' = viewState
        /\ (ctrlGesture /\ IsMoveStep) => viewState' = viewState
        /\ (\E d \in WheelNotches \cup WheelFlings : HandleWheel(d, TRUE))
              => viewState' = viewState
      ]_vars

\* C12: in globe mode a sphere placement is computed exactly for the indices
\* 0..n-1 of the displayed (filtered) list, n being the length of that list, so
\* n >= 1 at every placement; an empty displayed list gives no tile and no
\* placement.
C12_SpherePlacementDense ==
    LET tiles == Tiles(Displayed, mapMode)
    IN  mapMode = "globe" =>
          /\ Len(tiles) = Len(Displayed)
          /\ (Displayed = << >> => tiles = << >>)
          /\ \A k \in 1..Len(tiles) :
                /\ tiles[k].id = Displayed[k].id
                /\ tiles[k].style.kind = "sphere"
                /\ tiles[k].style.total = Len(Displayed)
                /\ tiles[k].style.total >= 1
                /\ tiles[k].style.index = k - 1
                /\ tiles[k].style.index \in 0..(tiles[k].style.total - 1)

\* C12 witness: globe mode with a filter that keeps some but not all businesses
C12_Witness ==
    /\ mapMode = "globe" /\ ~modeEffectPending
    /\ Len(Displayed) >= 1 /\ Len(Displayed) < Len(businesses)
    /\ Len(Tiles(Displayed, mapMode)) = Len(Displayed)

\* the tile of business id among the tiles
TileOf(tiles, id) == CHOOSE t \in {tiles[k] : k \in 1..Len(tiles)} : t.id = id

\* C13: with the fixed layout constants, the centre of grid cell (x, y) is
\* padding + (x-1)*(cellSize+gap) + cellSize/2 on the x axis and the same in y;
\* the centre of (1, 1) is padding + cellSize/2 on both axes; and the centre used
\* for the endpoints of networking edges is the top-left corner used to place
\* the tile plus cellSize/2 on both axes (cellSize and cellSize/2 are whole).
C13_CellCentre ==
    /\ CELL_SIZE * GRID_COLS = CONTAINER_SIZE - (PADDING * 2) - (GAP * (GRID_COLS - 1))
    /\ (CELL_SIZE \div 2) * 2 = CELL_SIZE
    /\ GetCellCenter([x |-> 1, y |-> 1])
          = [x |-> PADDING + CELL_SIZE \div 2, y |-> PADDING + CELL_SIZE \div 2]
    /\ \A x, y \in 1..GRID_COLS :
          LET centre == GetCellCenter([x |-> x, y |-> y])
              corner == TileStyle([gridPosition |-> [x |-> x, y |-> y]], 0, << >>, "standard")
          IN  /\ centre.x = PADDING + (x - 1) * (CELL_SIZE + GAP) + CELL_SIZE \div 2
              /\ centre.y = PADDING + (y - 1) * (CELL_SIZE + GAP) + CELL_SIZE \div 2
              /\ centre.x = corner.left + CELL_SIZE \div 2
              /\ centre.y = corner.top + CELL_SIZE \div 2
    /\ LET conns == NetworkingConnections(businesses, mapMode)
           tiles == Tiles(Displayed, mapMode)
       IN  \A i \in 1..Len(conns) :
              LET from == TileOf(tiles, conns[i].participants[1]).style
                  to == TileOf(tiles, conns[i].participants[2]).style
              IN  /\ conns[i].start = [x |-> from.left + from.width \div 2,
                                       y |-> from.top + from.height \div 2]
                  /\ conns[i].end = [x |-> to.left + to.width \div 2,
                                     y |-> to.top + to.height \div 2]

\* C13 witness: a networking edge that ends at the centre of a tile away from
\* the first row or column
C13_Witness ==
    /\ mapMode = "networking" /\ ~modeEffectPending
    /\ \E i \in 1..Len(NetworkingConnections(businesses, mapMode)) :
          LET c == NetworkingConnections(businesses, mapMode)[i]
              to == TileOf(Tiles(Displayed, mapMode), c.participants[2]).style
          IN  /\ to.top > PADDING
              /\ c.end = [x |-> to.left + CELL_SIZE \div 2, y |-> to.top + CELL_SIZE \div 2]

\* largest number of tiles for which the sphere placement is tabulated
MaxSphereTiles == 4

\* the (phi, theta) pairs of the indices i, i+1, ..., n-1 of a sphere of n tiles
RECURSIVE SphereAngles(_, _)
SphereAngles(i, n) ==
    IF i >= n THEN << >>
    ELSE LET phi == SpherePhi(i, n)
         IN  << [phi |-> phi, theta |-> SphereTheta(phi, n)] >> \o SphereAngles(i + 1, n)

\* the (phi, theta) pairs of the tiles, in index order
RECURSIVE TileAngles(_, _)
TileAngles(tiles, k) ==
    IF k > Len(tiles) THEN << >>
    ELSE LET style == tiles[k].style
         IN  << [phi |-> style.phi, theta |-> style.theta] >> \o TileAngles(tiles, k + 1)

\* distinct indices have distinct pairs, phi stays in [0, pi] and decreases
Covers(angles) ==
    /\ \A k \in 1..Len(angles) : angles[k].phi \in 0..31416
    /\ \A k \in 1..(Len(angles) - 1) : angles[k + 1].phi < angles[k].phi
    /\ \A k, l \in 1..Len(angles) : k # l => angles[k] # angles[l]

\* C14: for n businesses displayed in globe mode the (phi, theta) pairs of
\* distinct indices are distinct, every phi lies in [0, pi], and phi moves
\* monotonically (from pi at index 0 downwards) as the index goes from 0 to n-1.
C14_SphereCoverage ==
    mapMode = "globe" =>
       /\ LET angles == TileAngles(Tiles(Displayed, mapMode), 1)
          IN  Len(angles) = Len(Displayed) /\ Covers(angles)
       /\ \A n \in 1..MaxSphereTiles :
             LET angles == SphereAngles(0, n)
             IN  Len(angles) = n /\ Covers(angles) /\ angles[1].phi >= 31400

\* C14 witness: three tiles on the sphere
C14_Witness ==
    /\ mapMode = "globe" /\ ~modeEffectPending
    /\ Len(Tiles(Displayed, mapMode)) = 3
    /\ Tiles(Displayed, mapMode)[1].style.phi > Tiles(Displayed, mapMode)[3].style.phi

\* C15: a mode switch is one atomic transition: the step that gives the map
\* mode its new value also installs the camera and the interaction mode of that
\* mode, so no state has the new mode with the camera or interaction mode left
\* by the previous one.
C15_AtomicModeSwitch ==
    [][ mapMode' # mapMode =>
          IF mapMode' = "globe"
            THEN /\ viewState' = [zoom |-> 1800, rotateX |-> 0, rotateZ |-> 0,
                                  panX |-> 0, panY |-> 0]
                 /\ interactionMode' = "rotate"
            ELSE /\ viewState' = [zoom |-> 1600, rotateX |-> 550, rotateZ |-> 450,
                                  panX |-> 0, panY |-> 0]
                 /\ interactionMode' = "pan"
      ]_vars

\* C16: whenever the map mode is globe the interaction mode is rotate.
C16_GlobeForcesRotate == mapMode = "globe" => interactionMode = "rotate"

\* C17: a drag delta (dx, dy) applied while dragging changes, in globe mode,
\* rotateZ by +dx*0.5 and rotateX by -dy*0.5 without clamping, whatever the
\* interaction mode; outside globe mode with interaction mode pan, panX by +dx
\* and panY by +dy without clamping; outside globe mode with interaction mode
\* rotate, only rotateX and rotateZ.  Zoom never changes, a rotation drag leaves
\* pan unchanged and a pan drag leaves rotation unchanged.
C17_DragFrame ==
    [][ \A p \in Points :
          (IsMouseDragTo(p) \/ IsTouchDragTo(p)) =>
            LET last == IF IsMouseDragTo(p) THEN Val(lastMousePos) ELSE Val(lastTouchPos)
                dx == p.x - last.x
                dy == p.y - last.y
                panKept == /\ viewState'.panX = viewState.panX
                           /\ viewState'.panY = viewState.panY
                rotationKept == /\ viewState'.rotateX = viewState.rotateX
                                /\ viewState'.rotateZ = viewState.rotateZ
            IN  /\ viewState'.zoom = viewState.zoom
                /\ mapMode = "globe" =>
                      /\ viewState'.rotateZ = viewState.rotateZ + dx * 5
                      /\ viewState'.rotateX = viewState.rotateX - dy * 5
                      /\ panKept
                /\ (mapMode # "globe" /\ interactionMode = "pan") =>
                      /\ viewState'.panX = viewState.panX + dx
                      /\ viewState'.panY = viewState.panY + dy
                      /\ rotationKept
                /\ (mapMode # "globe" /\ interactionMode = "rotate") => panKept
      ]_vars

\* C17 witness: a globe drag has spun rotateX out of [0, 85] and turned rotateZ,
\* with pan and zoom as the globe reset left them
C17_Witness ==
    /\ mapMode = "globe" /\ ~modeEffectPending /\ isDragging
    /\ viewState.rotateX \notin 0..850
    /\ viewState.rotateZ # 0
    /\ viewState.panX = 0 /\ viewState.panY = 0 /\ viewState.zoom = 1800

\* C18: pointer-up, pointer-leave and every touch-end, the lifting of one finger
\* of two included, leave the gesture state idle; while it is idle no
\* pointer-move or touch-move changes the camera, and it stays idle until a
\* pointer-down or touch-start.
C18_ReleaseGoesIdle ==
    [][ /\ (HandleMouseUp \/ HandleMouseLeave \/ HandleTouchEnd) => ~isDragging'
        /\ (touches' < touches) => ~isDragging'
        /\ (~isDragging /\ IsMoveStep) => viewState' = viewState
        /\ (~isDragging /\ isDragging') =>
              \/ \E p \in Points : HandleMouseDown(p, FALSE)
              \/ \E p \in Points, d \in PinchDists \cup PinchSpreads :
                    HandleTouchStart(p, d, FALSE)
      ]_vars

\* C18 witness: one finger of a pinch was lifted: a finger is still down and the
\* machine is idle after the pinch had zoomed
C18_Witness ==
    /\ touches = 1 /\ ~isDragging /\ ~ctrlGesture
    /\ IsNone(lastTouchPos) /\ IsNone(lastTouchDist)
    /\ viewState.zoom \notin {1600, 1800}

\* C19: a touch-move with two active touches never translates or rotates the
\* camera: panX, panY, rotateX and rotateZ are unchanged by it.  With a recorded
\* inter-finger distance it sets zoom to clamp(zoom + (distance - lastDistance)
\* * 0.005, 0.4, 2.5) and records the new distance; without one (or while idle)
\* it changes nothing at all.
C19_PinchOnlyZooms ==
    [][ \A d \in PinchDists \cup PinchSpreads :
          (touches = 2 /\ \E p \in Points : HandleTouchMove(p, d)) =>
            /\ viewState'.panX = viewState.panX
            /\ viewState'.panY = viewState.panY
            /\ viewState'.rotateX = viewState.rotateX
            /\ viewState'.rotateZ = viewState.rotateZ
            /\ lastTouchPos' = lastTouchPos
            /\ IF isDragging /\ lastTouchDist # None /\ lastTouchDist # <<0>>
                 THEN LET target == viewState.zoom + (d - lastTouchDist[1]) * 10
                      IN  /\ viewState'.zoom = (IF target < 800 THEN 800
                                                ELSE IF target > 5000 THEN 5000 ELSE target)
                          /\ lastTouchDist' = <<d>>
                 ELSE /\ viewState'.zoom = viewState.zoom
                      /\ lastTouchDist' = lastTouchDist
      ]_vars

\* C19 witness: two fingers are pinching a camera that an earlier drag had panned,
\* and the pinch has zoomed it to the upper limit
C19_Witness ==
    /\ touches = 2 /\ isDragging /\ lastTouchDist = <<1000>>
    /\ viewState.zoom = 5000
    /\ viewState.panX # 0

\* services a business needs / offers (none without a genome profile)
NeededBy(b) == IF b.genomeProfile = << >> THEN << >> ELSE b.genomeProfile[1].servicesNeeded
OfferedBy(b) == IF b.genomeProfile = << >> THEN << >> ELSE b.genomeProfile[1].servicesOffered

\* some needed service of a contains, or is contained in, some offered service
\* of b, letter case ignored
ServesNeed(a, b) ==
    \E i \in 1..Len(NeededBy(a)), j \in 1..Len(OfferedBy(b)) :
        \/ Includes(ToLowerCase(NeededBy(a)[i]), ToLowerCase(OfferedBy(b)[j]))
        \/ Includes(ToLowerCase(OfferedBy(b)[j]), ToLowerCase(NeededBy(a)[i]))

\* the edges as a set of (unordered pair, type)
EdgeSet(conns) == { <<PairOf(conns[i]), conns[i].type>> : i \in 1..Len(conns) }

Reverse(seq) == [i \in 1..Len(seq) |-> seq[Len(seq) + 1 - i]]

\* C20: outside networking mode there is no edge.  In networking mode the pair
\* {A, B} has an edge iff both are occupied and either some needed service of one
\* contains or is contained in some offered service of the other, letter case
\* ignored (type synergy), or there is no such match and A.category = B.category
\* (type industry).  The edges are the same when the list is read in the
\* opposite order, and no unoccupied business takes part in an edge.
C20_EdgeCharacterisation ==
    LET conns == NetworkingConnections(businesses, mapMode)
        edges == EdgeSet(conns)
    IN  /\ mapMode # "networking" => conns = << >>
        /\ mapMode = "networking" =>
              /\ \A a, b \in 1..Len(businesses) :
                    a < b =>
                      LET A == businesses[a]
                          B == businesses[b]
                          synergy == ServesNeed(A, B) \/ ServesNeed(B, A)
                          both == A.isOccupied /\ B.isOccupied
                      IN  /\ <<{A.id, B.id}, "synergy">> \in edges <=> (both /\ synergy)
                          /\ <<{A.id, B.id}, "industry">> \in edges
                                <=> (both /\ ~synergy /\ A.category = B.category)
              /\ \A e \in edges :
                    /\ e[2] \in {"synergy", "industry"}
                    /\ \A id \in e[1] : \E k \in 1..Len(businesses) :
                          businesses[k].id = id /\ businesses[k].isOccupied
              /\ Len(conns) = Cardinality(edges)
              /\ EdgeSet(NetworkingConnections(Reverse(businesses), mapMode)) = edges

\* C20 witness: networking mode over a list with an unoccupied business whose
\* offer would match a need, and a synergy edge that exists only because the
\* later business of the pair needs what the earlier one offers
C20_Witness ==
    /\ mapMode = "networking" /\ ~modeEffectPending
    /\ \E a, b \in 1..Len(businesses) :
          /\ ~businesses[a].isOccupied /\ businesses[b].isOccupied
          /\ ServesNeed(businesses[b], businesses[a])
    /\ \E i \in 1..Len(NetworkingConnections(businesses, mapMode)) :
          LET c == NetworkingConnections(businesses, mapMode)[i]
              first == BusinessById(businesses, c.participants[1])
              second == BusinessById(businesses, c.participants[2])
          IN  c.type = "synergy" /\ ~ServesNeed(first, second) /\ ServesNeed(second, first)

----------------------------------------------------------------------------
(* C21: memoised edges and traffic segments *)

\* the cached edges and segments are what a full derivation from the current
\* list and mode gives
MemoInSync ==
    /\ memo.networkingConnections = NetworkingConnections(businesses, mapMode)
    /\ memo.trafficSegments = TrafficSegments(businesses, mapMode)

\* a step that changes neither the list nor the mode (camera moves, hovering,
\* selecting) runs no factory and leaves the cached values as they were
SameDepsKeepCache ==
    (businesses' = businesses /\ mapMode' = mapMode)
        => /\ ~memo'.recomputed
           /\ memo'.networkingConnections = memo.networkingConnections
           /\ memo'.trafficSegments = memo.trafficSegments

----------------------------------------------------------------------------
(* C22: the overlay's edges and the displayed tiles *)

\* the lines of the overlay in the current render
Drawn == DrawnConnections(mapMode, memo.networkingConnections, hoveredId, selectedBusinessId)

\* C22: every edge drawn in the networking overlay has both of its
\* participants among the displayed tiles; an edge that references an id absent
\* from the displayed list is not drawn
C22_DrawnEdgesJoinDisplayedTiles ==
    \A i \in 1..Len(Drawn) :
        \A k \in 1..2 : Drawn[i].participants[k] \in Ids(Displayed)

----------------------------------------------------------------------------
(* C23: the highlight around the focus *)

\* what BuildingBlock is handed for the tile of business id
NetStatus(id) ==
    GetNetworkStatus(id, mapMode, hoveredId, selectedBusinessId, memo.networkingConnections)

\* C23: in networking mode with a focus, which is the hovered business when
\* one is hovered and the selected business otherwise, the focus itself is
\* related; any other business is related exactly when the edge set holds an
\* edge between it and the focus, and the type reported for it is that edge's
C23_HighlightFollowsFocus ==
    (mapMode = "networking" /\ (~IsNone(hoveredId) \/ ~IsNone(selectedBusinessId))) =>
        LET focus == IF ~IsNone(hoveredId) THEN Val(hoveredId) ELSE Val(selectedBusinessId)
            edges == EdgeSet(memo.networkingConnections)
        IN  \A id \in Ids(Displayed) :
                IF id = focus
                  THEN NetStatus(id).isRelated
                  ELSE /\ NetStatus(id).isRelated <=> (\E e \in edges : e[1] = {id, focus})
                       /\ \A e \in edges : e[1] = {id, focus} => NetStatus(id).type = e[2]

\* C23 witness: networking mode with one business hovered and another
\* selected; the selected one is tied to the hovered one by an industry edge,
\* and a third business has an edge to the selected one and none to the hovered one
C23_Witness ==
    /\ mapMode = "networking" /\ ~modeEffectPending
    /\ ~IsNone(hoveredId) /\ ~IsNone(selectedBusinessId)
    /\ Val(hoveredId) # Val(selectedBusinessId)
    /\ <<{Val(hoveredId), Val(selectedBusinessId)}, "industry">>
           \in EdgeSet(memo.networkingConnections)
    /\ NetStatus(Val(selectedBusinessId)).type = "industry"
    /\ \E id \in Ids(Displayed) :
          /\ id \notin {Val(hoveredId), Val(selectedBusinessId)}
          /\ \E e \in EdgeSet(memo.networkingConnections) : e[1] = {id, Val(selectedBusinessId)}
          /\ ~NetStatus(id).isRelated

----------------------------------------------------------------------------
(* C24: the camera while AI requests are in flight *)

\* an AI search or a trend analysis has been issued and has not completed
Busy == searchInFlight # {} \/ analyzeInFlight > 0

\* every gesture and button handler of the camera can run
CameraEnabled ==
    IF modeEffectPending
      THEN ENABLED ModeEffect
      ELSE /\ \A m \in AsyncModes : ENABLED SetMapMode(m)
           /\ \A p \in Points : ENABLED HandleMouseDown(p, FALSE)
           /\ \A p \in Points :
                 (isDragging /\ ~IsNone(lastMousePos)
                    => InBounds(UpdateNavigation(viewState, mapMode, interactionMode,
                                                 p.x - Val(lastMousePos).x,
                                                 p.y - Val(lastMousePos).y)))
                 => ENABLED HandleMouseMove(p)
           /\ ENABLED HandleMouseUp
           /\ \A d \in WheelFlings : ENABLED HandleWheel(d, FALSE)

\* what each camera handler does to the camera and the gesture state, as it
\* does with no request pending
CameraEffect ==
    /\ \A m \in AsyncModes : SetMapMode(m) => mapMode' = m /\ viewState' = viewState
    /\ ModeEffect =>
          viewState' = ResetView(mapMode) /\ interactionMode' = ResetInteraction(mapMode)
    /\ \A p \in Points :
          /\ HandleMouseDown(p, FALSE) =>
                isDragging' /\ lastMousePos' = Some(p) /\ viewState' = viewState
          /\ IsMouseDragTo(p) =>
                /\ lastMousePos' = Some(p)
                /\ viewState' = UpdateNavigation(viewState, mapMode, interactionMode,
                                                 p.x - Val(lastMousePos).x,
                                                 p.y - Val(lastMousePos).y)
    /\ HandleMouseUp => ~isDragging' /\ viewState' = viewState
    /\ \A d \in WheelFlings : HandleWheel(d, FALSE) => viewState' = WheelZoom(viewState, d)

\* a step in which an AI search or a trend analysis completes
CompletionStep ==
    \/ searchInFlight' # searchInFlight /\ searchInFlight' \subseteq searchInFlight
    \/ analyzeInFlight' < analyzeInFlight

----------------------------------------------------------------------------
(* C25: per-tile content across the detail tiers *)

\* the content the level-of-detail policy speaks of
ListedContent ==
    {"name label", "logo", "pulse", "status dot", "ground shadow", "window texture",
     "status banner"}

\* what the tile of `business` shows of it in the current render, were the tier lod
ContentAt(business, lod) ==
    TileContent(business, lod, mapMode,
                hoveredId = Some(business.id), selectedBusinessId = Some(business.id),
                NetStatus(business.id).isRelated)
        \cap ListedContent

StrictlyLess(S, T) == S \subseteq T /\ S # T

\* the displayed businesses, in a mode where the tier follows the zoom
TieredTiles ==
    IF mapMode = "globe" THEN {} ELSE {Displayed[k] : k \in 1..Len(Displayed)}

\* C25 as stated: for the same inputs the content set of a tile at a lower
\* tier is strictly less than, and never more than, its content set at a
\* higher tier
C25_LowerTierStrictlyLess ==
    \A b \in TieredTiles :
        /\ StrictlyLess(ContentAt(b, "low"), ContentAt(b, "medium"))
        /\ StrictlyLess(ContentAt(b, "medium"), ContentAt(b, "high"))

\* C25 amended: for the same inputs the content set of a tile at a lower tier
\* is never more than its content set at a higher tier, and strictly less when
\* the business is occupied
C25_LowerTierNeverMore ==
    \A b \in TieredTiles :
        /\ ContentAt(b, "low") \subseteq ContentAt(b, "medium")
        /\ ContentAt(b, "medium") \subseteq ContentAt(b, "high")
        /\ b.isOccupied =>
              /\ StrictlyLess(ContentAt(b, "low"), ContentAt(b, "medium"))
              /\ StrictlyLess(ContentAt(b, "medium"), ContentAt(b, "high"))

\* C25 witness: zoomed in to the high tier in networking mode, with an occupied
\* tile hovered and selected that shows its banner at every tier, and a vacant
\* tile that shows at the high tier what it shows at the medium tier
C25_Witness ==
    /\ mapMode = "networking" /\ ~modeEffectPending
    /\ CurrentLod(viewState.zoom, mapMode) = "high"
    /\ \E b \in TieredTiles :
          /\ b.isOccupied /\ hoveredId = Some(b.id) /\ selectedBusinessId = Some(b.id)
          /\ "status banner" \in ContentAt(b, "low")
          /\ "window texture" \in ContentAt(b, "high") \ ContentAt(b, "medium")
    /\ \E b \in TieredTiles :
          /\ ~b.isOccupied
          /\ ContentAt(b, "medium") = ContentAt(b, "high")
          /\ ContentAt(b, "low") # ContentAt(b, "medium")

----------------------------------------------------------------------------
(* C26: drag deltas and the drag they belong to *)

\* C26: every drag delta is computed against a pointer position that was
\* recorded during the drag in progress, never against a position left over
\* from a drag that has finished, whichever input type began either drag
C26_DeltaFromCurrentDrag ==
    [][\A p \in Points :
          /\ IsMouseDragTo(p) => recordedInDrag.mouse
          /\ IsTouchDragTo(p) => recordedInDrag.touch]_vars

----------------------------------------------------------------------------
(* C27, C28: overlapping AI searches *)

\* C27: the searching flag is up in every state in which at least one AI
\* search has been issued and has not completed, overlapping searches included
C27_FlagWhileAnyInFlight == searchInFlight # {} => isSearchingAI

\* C28: when AI searches overlapped, once all of them have completed the
\* filter holds the result of the one issued last, in whatever order the
\* responses arrived
C28_LastIssuedWins ==
    (searchIssued >= 1 /\ searchInFlight = {}) => aiFilteredIds = latestIssuedResult

----------------------------------------------------------------------------
(* C29: the AI filter stays *)

\* a step in which an AI search completes
SearchCompletes ==
    searchInFlight' # searchInFlight /\ searchInFlight' \subseteq searchInFlight

\* C29: once an AI search has completed and set the AI filter, no operation
\* returns the filter to unset; from then on the displayed businesses are
\* exactly those whose id is in the last AI result, and editing or clearing
\* the search text does not change them until another AI search completes
C29_AiFilterStays ==
    /\ [](~IsNone(aiFilteredIds) => Ids(Displayed) = Ids(businesses) \cap Val(aiFilteredIds))
    /\ [][~IsNone(aiFilteredIds) =>
            /\ ~IsNone(aiFilteredIds')
            /\ ~SearchCompletes => (aiFilteredIds' = aiFilteredIds /\ Displayed' = Displayed)
         ]_vars

\* C29 witness: the AI filter holds businesses 2 and 3, no search is in flight,
\* and the search text, which was not blank when the search was issued, has
\* been cleared since; businesses 2 and 3 are displayed, not the whole list
C29_Witness ==
    /\ aiFilteredIds = Some({2, 3}) /\ searchInFlight = {}
    /\ searchQuery = << >>
    /\ Ids(ProcessedBusinesses(businesses, None, searchQuery)) = {1, 2, 3}
    /\ Ids(Displayed) = {2, 3}

----------------------------------------------------------------------------
(* C30: the selection stays *)

\* C30: once a business has been selected the selected id is never empty
\* again: closing the sidebar, switching the map mode and hovering leave the
\* selection in place (only another selection replaces it), so in networking
\* mode the state without a focus is not reached after the first selection
C30_SelectionStays ==
    [][~IsNone(selectedBusinessId) =>
          /\ ~IsNone(selectedBusinessId')
          /\ selectedBusinessId' # selectedBusinessId => isSidebarOpen'
          /\ mapMode' = "networking" => ~IsNone(ActiveId(hoveredId', selectedBusinessId'))
      ]_vars

\* C30 witness: networking mode, a business selected, the sidebar closed since
\* and nothing hovered; the selected business is the focus and a business
\* without an edge to it is not related
C30_Witness ==
    /\ mapMode = "networking" /\ ~modeEffectPending
    /\ ~IsNone(selectedBusinessId) /\ ~isSidebarOpen /\ IsNone(hoveredId)
    /\ NetStatus(Val(selectedBusinessId)).isRelated
    /\ \E id \in Ids(Displayed) : ~NetStatus(id).isRelated

====
